---- MODULE Spec2Model ----
(***************************************************************************)
(* Risk/reward evaluation of trading orders (src/热力图.py):                *)
(* calc_price_from_input, analyze_order, plot_heatmap and                  *)
(* analyze_trading_orders.                                                 *)
(*                                                                         *)
(* Numbers are Python floats (IEEE-754 binary64).  A float is modelled as  *)
(* the exact dyadic value (-1)^s * m * 2^e it denotes, and every           *)
(* arithmetic operation of the code is the exact operation followed by     *)
(* rounding to 53 significant bits, ties to even.  Mantissas exceed TLC's  *)
(* integers, so they are kept as little-endian sequences of limbs.  NaN,   *)
(* the infinities, overflow and underflow are outside the model: the       *)
(* inputs drawn below keep every exponent far from the limits.             *)
(***************************************************************************)
EXTENDS Integers, Sequences, FiniteSets, TLC

----------------------------------------------------------------------------
(* Arbitrary-size naturals: <<>> is 0, no most-significant zero limb.      *)

Base == 2 ^ 15

Max(a, b) == IF a >= b THEN a ELSE b
Min(a, b) == IF a <= b THEN a ELSE b

Limb(a, i) == IF i <= Len(a) THEN a[i] ELSE 0

RECURSIVE BitLenInt(_)
BitLenInt(n) == IF n = 0 THEN 0 ELSE 1 + BitLenInt(n \div 2)

\* bits in a limb
LimbBits == BitLenInt(Base) - 1

RECURSIVE NNorm(_)
NNorm(a) ==
  IF a = <<>> THEN a
  ELSE IF a[Len(a)] = 0 THEN NNorm(SubSeq(a, 1, Len(a) - 1)) ELSE a

RECURSIVE NFromInt(_)
NFromInt(n) == IF n = 0 THEN <<>> ELSE <<n % Base>> \o NFromInt(n \div Base)

RECURSIVE NAddC(_, _, _, _)
NAddC(a, b, i, c) ==
  IF i > Len(a) /\ i > Len(b)
  THEN IF c = 0 THEN <<>> ELSE <<c>>
  ELSE LET t == Limb(a, i) + Limb(b, i) + c
       IN  <<t % Base>> \o NAddC(a, b, i + 1, t \div Base)

NAdd(a, b) == NAddC(a, b, 1, 0)

RECURSIVE NSubC(_, _, _, _)
NSubC(a, b, i, c) ==
  IF i > Len(a) THEN <<>>
  ELSE LET t == a[i] - Limb(b, i) - c
       IN  IF t < 0 THEN <<t + Base>> \o NSubC(a, b, i + 1, 1)
           ELSE <<t>> \o NSubC(a, b, i + 1, 0)

\* a - b for a >= b
NSub(a, b) == NNorm(NSubC(a, b, 1, 0))

RECURSIVE NCmpAt(_, _, _)
NCmpAt(a, b, i) ==
  IF i = 0 THEN 0
  ELSE IF a[i] > b[i] THEN 1
  ELSE IF a[i] < b[i] THEN -1
  ELSE NCmpAt(a, b, i - 1)

\* -1, 0, 1 as a < b, a = b, a > b
NCmp(a, b) ==
  IF Len(a) > Len(b) THEN 1
  ELSE IF Len(a) < Len(b) THEN -1
  ELSE NCmpAt(a, b, Len(a))

RECURSIVE NMulSmallC(_, _, _, _)
NMulSmallC(a, d, i, c) ==
  IF i > Len(a)
  THEN IF c = 0 THEN <<>> ELSE <<c>>
  ELSE LET t == a[i] * d + c
       IN  <<t % Base>> \o NMulSmallC(a, d, i + 1, t \div Base)

\* a * d for a limb d
NMulSmall(a, d) == IF d = 0 THEN <<>> ELSE NMulSmallC(a, d, 1, 0)

NShlLimbs(a, k) == IF a = <<>> THEN a ELSE [j \in 1..k |-> 0] \o a

RECURSIVE NMulAt(_, _, _)
NMulAt(a, b, i) ==
  IF i > Len(b) THEN <<>>
  ELSE NAdd(NShlLimbs(NMulSmall(a, b[i]), i - 1), NMulAt(a, b, i + 1))

NMul(a, b) == NMulAt(a, b, 1)

\* a * 2^k
NShl(a, k) == NShlLimbs(NMulSmall(a, 2 ^ (k % LimbBits)), k \div LimbBits)

RECURSIVE NDivSmallAt(_, _, _, _)
NDivSmallAt(a, d, i, r) ==
  IF i = 0 THEN <<>>
  ELSE LET t == r * Base + a[i]
       IN  NDivSmallAt(a, d, i - 1, t % d) \o <<t \div d>>

\* floor(a / d) for a limb d > 0
NDivSmall(a, d) == NNorm(NDivSmallAt(a, d, Len(a), 0))

\* floor(a / 2^k)
NShr(a, k) ==
  IF k \div LimbBits >= Len(a) THEN <<>>
  ELSE NDivSmall(SubSeq(a, k \div LimbBits + 1, Len(a)), 2 ^ (k % LimbBits))

NBitLen(a) == IF a = <<>> THEN 0 ELSE (Len(a) - 1) * LimbBits + BitLenInt(a[Len(a)])

NIsOdd(a) == a # <<>> /\ a[1] % 2 = 1

RECURSIVE TrailZerosInt(_)
TrailZerosInt(n) == IF n % 2 = 1 THEN 0 ELSE 1 + TrailZerosInt(n \div 2)

RECURSIVE NTrailZerosAt(_, _)
NTrailZerosAt(a, i) ==
  IF a[i] = 0 THEN LimbBits + NTrailZerosAt(a, i + 1) ELSE TrailZerosInt(a[i])

\* number of trailing zero bits of a > 0
NTrailZeros(a) == NTrailZerosAt(a, 1)

\* One quotient limb of r / b, for r < b * Base and b's top limb >= Base / 2:
\* the estimate from the leading limbs is at most 2 too large.
RECURSIVE NDivFix(_, _, _)
NDivFix(r, b, qh) ==
  IF NCmp(NMulSmall(b, qh), r) > 0 THEN NDivFix(r, b, qh - 1) ELSE qh

NDivDigit(r, b) ==
  LET n  == Len(b)
      rt == Limb(r, n + 1) * Base + Limb(r, n)
  IN  NDivFix(r, b, Min(rt \div b[n], Base - 1))

RECURSIVE NDivModAt(_, _, _, _, _)
NDivModAt(a, b, i, r, q) ==
  IF i = 0 THEN [q |-> NNorm(q), r |-> r]
  ELSE LET r1 == NNorm(<<a[i]>> \o r)
           qd == NDivDigit(r1, b)
       IN  NDivModAt(a, b, i - 1, NSub(r1, NMulSmall(b, qd)), <<qd>> \o q)

\* Long division, b > 0: q and r with a = q * b + r, r < b.
NDivMod(a, b) ==
  LET s  == LimbBits - BitLenInt(b[Len(b)])
      as == NShl(a, s)
      qr == NDivModAt(as, NShl(b, s), Len(as), <<>>, <<>>)
  IN  [q |-> qr.q, r |-> NShr(qr.r, s)]

----------------------------------------------------------------------------
(* binary64 values: [s, m, e] is (-1)^s * m * 2^e with m odd, or Zero.     *)

Precision == 53

Zero == [s |-> 0, m |-> <<>>, e |-> 0]

\* the canonical form of (-1)^s * m * 2^e
XNorm(s, m, e) ==
  IF m = <<>> THEN Zero
  ELSE LET z == NTrailZeros(m) IN [s |-> s, m |-> NShr(m, z), e |-> e + z]

\* round to nearest, ties to even, at 53 significant bits
FRound(x) ==
  LET L == NBitLen(x.m) IN
  IF L <= Precision THEN x
  ELSE LET d    == L - Precision
           kept == NShr(x.m, d)
           rest == NSub(x.m, NShl(kept, d))
           c    == NCmp(rest, NShl(<<1>>, d - 1))
           up   == c > 0 \/ (c = 0 /\ NIsOdd(kept))
       IN  XNorm(x.s, IF up THEN NAdd(kept, <<1>>) ELSE kept, x.e + d)

\* exact product, sum and negation of two values
XMul(x, y) ==
  IF x.m = <<>> \/ y.m = <<>> THEN Zero
  ELSE XNorm((x.s + y.s) % 2, NMul(x.m, y.m), x.e + y.e)

XNeg(x) == IF x.m = <<>> THEN x ELSE [x EXCEPT !.s = 1 - x.s]

XAdd(x, y) ==
  IF x.m = <<>> THEN y
  ELSE IF y.m = <<>> THEN x
  ELSE LET e  == Min(x.e, y.e)
           mx == NShl(x.m, x.e - e)
           my == NShl(y.m, y.e - e)
           c  == NCmp(mx, my)
       IN  IF x.s = y.s THEN XNorm(x.s, NAdd(mx, my), e)
           ELSE IF c = 0 THEN Zero
           ELSE IF c > 0 THEN XNorm(x.s, NSub(mx, my), e)
           ELSE XNorm(y.s, NSub(my, mx), e)

XSub(x, y) == XAdd(x, XNeg(y))

\* -1, 0, 1 as the value is negative, zero, positive
Sign(x) == IF x.m = <<>> THEN 0 ELSE IF x.s = 1 THEN -1 ELSE 1

XAbs(x) == [x EXCEPT !.s = 0]

\* the float operators of the code: *, +, -, /, abs, comparisons
FMul(x, y) == FRound(XMul(x, y))
FAdd(x, y) == FRound(XAdd(x, y))
FSub(x, y) == FRound(XSub(x, y))
FAbs(x) == XAbs(x)
FLt(x, y) == Sign(XSub(x, y)) < 0
FLe(x, y) == Sign(XSub(x, y)) <= 0
FGt(x, y) == Sign(XSub(x, y)) > 0
FGe(x, y) == Sign(XSub(x, y)) >= 0

\* x / y for y # 0: the quotient to 55 bits or more and a sticky bit, rounded
FDiv(x, y) ==
  IF x.m = <<>> THEN Zero
  ELSE LET k  == Max(0, Precision + 2 + NBitLen(y.m) - NBitLen(x.m))
           qr == NDivMod(NShl(x.m, k), y.m)
           m  == NAdd(NShl(qr.q, 1), IF qr.r = <<>> THEN <<>> ELSE <<1>>)
       IN  FRound(XNorm((x.s + y.s) % 2, m, x.e - y.e - k - 1))

\* the float of an integer n, |n| < 2^31
FromInt(n) == IF n < 0 THEN XNorm(1, NFromInt(-n), 0) ELSE XNorm(0, NFromInt(n), 0)

\* the float nearest the decimal n / 10^k (a literal such as 0.6)
Dec(n, k) == FDiv(FromInt(n), FromInt(10 ^ k))

----------------------------------------------------------------------------
(* Strings are sequences of one-character strings over the characters the  *)
(* inputs below use: digits, sign, point, "%" and the letter "x".          *)

DigitChars == <<"0", "1", "2", "3", "4", "5", "6", "7", "8", "9">>

IsDigit(ch) == \E i \in 1..Len(DigitChars) : DigitChars[i] = ch

DigitVal(ch) == (CHOOSE i \in 1..Len(DigitChars) : DigitChars[i] = ch) - 1

RECURSIVE DigitsVal(_)
DigitsVal(c) ==
  IF c = <<>> THEN 0
  ELSE 10 * DigitsVal(SubSeq(c, 1, Len(c) - 1)) + DigitVal(c[Len(c)])

\* str.endswith
EndsWith(c, ch) == c # <<>> /\ c[Len(c)] = ch

\* str.strip(ch): every leading and every trailing ch is removed
RECURSIVE Strip(_, _)
Strip(c, ch) ==
  IF c = <<>> THEN c
  ELSE IF c[1] = ch THEN Strip(Tail(c), ch)
  ELSE IF c[Len(c)] = ch THEN Strip(SubSeq(c, 1, Len(c) - 1), ch)
  ELSE c

\* float(str): [sign] digits [. [digits]] or [sign] . digits, correctly
\* rounded; anything else is a ValueError (ok = FALSE)
ParseFloat(c) ==
  LET signed == c # <<>> /\ c[1] \in {"-", "+"}
      body   == IF signed THEN Tail(c) ELSE c
      dots   == {i \in 1..Len(body) : body[i] = "."}
      dot    == IF dots = {} THEN Len(body) + 1 ELSE CHOOSE i \in dots : TRUE
      ip     == SubSeq(body, 1, dot - 1)
      fp     == SubSeq(body, dot + 1, Len(body))
      ok     == /\ Cardinality(dots) <= 1
                /\ \A i \in 1..Len(ip) : IsDigit(ip[i])
                /\ \A i \in 1..Len(fp) : IsDigit(fp[i])
                /\ Len(ip) + Len(fp) >= 1
      n      == DigitsVal(ip \o fp)
  IN  IF ok
      THEN [ok |-> TRUE, v |-> Dec(IF signed /\ c[1] = "-" THEN -n ELSE n, Len(fp))]
      ELSE [ok |-> FALSE, v |-> Zero]

\* a price spec: a number, or a string
Num(n) == [t |-> "num", v |-> FromInt(n), c |-> <<>>]
Str(c) == [t |-> "str", v |-> Zero, c |-> c]

One == FromInt(1)
Hundred == FromInt(100)

----------------------------------------------------------------------------
(* calc_price_from_input: ok = FALSE is the ValueError float() raises      *)

\* float(value)
ToFloat(value) ==
  IF value.t = "str" THEN ParseFloat(value.c) ELSE [ok |-> TRUE, v |-> value.v]

\* mutant: the "1 +" of line 10 is lost
calc_price_from_input_nobase(current_price, value) ==
  IF value.t = "str" /\ EndsWith(value.c, "%")
  THEN LET pct == ParseFloat(Strip(value.c, "%"))
       IN  IF pct.ok
           THEN [ok |-> TRUE, v |-> FMul(current_price, FDiv(pct.v, Hundred))]
           ELSE pct
  ELSE ToFloat(value)

calc_price_from_input(current_price, value) ==
  IF value.t = "str" /\ EndsWith(value.c, "%")
  THEN LET pct == ParseFloat(Strip(value.c, "%"))
       IN  IF pct.ok
           THEN [ok |-> TRUE,
                 v  |-> FMul(current_price, FAdd(One, FDiv(pct.v, Hundred)))]
           ELSE pct
  ELSE ToFloat(value)

----------------------------------------------------------------------------
(* analyze_order.  direction "long" stands for the code's direction label  *)
(* of a long order; every other label takes the code's else branch.        *)

\* mutant: the early returns let equality through
rejected_nonstrict(direction, current_price, stop_loss, take_profit) ==
  IF direction = "long"
  THEN FGt(stop_loss, current_price) \/ FLt(take_profit, current_price)
  ELSE FLt(stop_loss, current_price) \/ FGt(take_profit, current_price)

\* the early returns of lines 27 and 34: TRUE when the order is rejected
rejected(direction, current_price, stop_loss, take_profit) ==
  IF direction = "long"
  THEN FGe(stop_loss, current_price) \/ FLe(take_profit, current_price)
  ELSE FLe(stop_loss, current_price) \/ FGe(take_profit, current_price)

potential_profit(direction, current_price, take_profit, position_size) ==
  IF direction = "long"
  THEN FMul(FSub(take_profit, current_price), position_size)
  ELSE FMul(FSub(current_price, take_profit), position_size)

\* mutant: the short branch is not mirrored
potential_loss_unmirrored(direction, current_price, stop_loss, position_size) ==
  FMul(FSub(current_price, stop_loss), position_size)

potential_loss(direction, current_price, stop_loss, position_size) ==
  IF direction = "long"
  THEN FMul(FSub(current_price, stop_loss), position_size)
  ELSE FMul(FSub(stop_loss, current_price), position_size)

\* mutant: the short branch is not mirrored
pct_profit_unmirrored(direction, current_price, take_profit) ==
  FMul(FDiv(FSub(take_profit, current_price), current_price), Hundred)

pct_profit(direction, current_price, take_profit) ==
  IF direction = "long"
  THEN FMul(FDiv(FSub(take_profit, current_price), current_price), Hundred)
  ELSE FMul(FDiv(FSub(current_price, take_profit), current_price), Hundred)

pct_loss(direction, current_price, stop_loss) ==
  FMul(FDiv(FSub(stop_loss, current_price), current_price), Hundred)

\* mutant: the guard of line 41 is lost
loss_is_zero_never(loss) == FALSE

\* line 41: the division-by-zero guard
loss_is_zero(loss) == loss = Zero

profit_loss_ratio(profit, loss) == FAbs(FDiv(profit, loss))

\* mutant: the loss is weighted by win_rate, not by 1 - win_rate
expected_val_sameweight(win_rate, profit, loss) ==
  FSub(FMul(win_rate, profit), FMul(win_rate, loss))

expected_val(win_rate, profit, loss) ==
  FSub(FMul(win_rate, profit), FMul(FSub(One, win_rate), loss))

NoResult ==
  [direction |-> "", entry_price |-> Zero, take_profit |-> Zero,
   stop_loss |-> Zero, profit_loss_ratio |-> Zero, potential_profit |-> Zero,
   potential_loss |-> Zero, take_profit_pct |-> Zero, stop_loss_pct |-> Zero,
   capital |-> Zero, position_value |-> Zero, leverage |-> Zero,
   win_rate |-> Zero, expected_value |-> Zero]

\* kind: "raise" (ZeroDivisionError), "none" (return None) or "result"
analyze_order(order, cap, lev) ==
  IF lev = Zero \/ order.current_price = Zero
  THEN [kind |-> "raise", r |-> NoResult]
  ELSE
    LET current_price  == order.current_price
        position_value == FMul(cap, lev)
        position_size  == FDiv(position_value, current_price)
        profit == potential_profit(order.direction, current_price,
                                   order.take_profit, position_size)
        loss   == potential_loss(order.direction, current_price,
                                 order.stop_loss, position_size)
    IN  IF rejected(order.direction, current_price, order.stop_loss,
                    order.take_profit)
        THEN [kind |-> "none", r |-> NoResult]
        ELSE IF loss_is_zero(loss)
        THEN [kind |-> "none", r |-> NoResult]
        ELSE [kind |-> "result",
              r |-> [direction         |-> order.direction,
                     entry_price       |-> current_price,
                     take_profit       |-> order.take_profit,
                     stop_loss         |-> order.stop_loss,
                     profit_loss_ratio |-> profit_loss_ratio(profit, loss),
                     potential_profit  |-> profit,
                     potential_loss    |-> loss,
                     take_profit_pct   |-> pct_profit(order.direction,
                                             current_price, order.take_profit),
                     stop_loss_pct     |-> pct_loss(order.direction,
                                             current_price, order.stop_loss),
                     capital           |-> cap,
                     position_value    |-> position_value,
                     leverage          |-> lev,
                     win_rate          |-> order.win_rate,
                     expected_value    |-> expected_val(order.win_rate,
                                                        profit, loss)]]

----------------------------------------------------------------------------
(* plot_heatmap: the surface, the break-even curve and the order markers   *)

\* mutant: the surface subtracts X, not 1 - X
Z_wrongoffset(X, Y) == FSub(FMul(X, Y), X)

\* Z = X * Y - (1 - X)
Z(X, Y) == FSub(FMul(X, Y), FSub(One, X))

Clip(x, lo, hi) == IF FLt(x, lo) THEN lo ELSE IF FGt(x, hi) THEN hi ELSE x

\* breakeven_y at breakeven_x = x (in percent)
breakeven_y(x) ==
  Clip(FDiv(FSub(One, FDiv(x, Hundred)), FDiv(x, Hundred)), Zero, FromInt(5))

marker(row) ==
  [x     |-> FMul(row.win_rate, Hundred),
   y     |-> row.profit_loss_ratio,
   color |-> IF row.direction = "long" THEN "green" ELSE "red"]

plot_heatmap(orders_data) ==
  [idx \in 1..Len(orders_data) |-> marker(orders_data[idx])]

----------------------------------------------------------------------------
(* analyze_trading_orders(capital, leverage, orders_input)                 *)

VARIABLES
  capital,       \* argument
  leverage,      \* argument
  orders_input,  \* argument: rows [direction, win_rate, price, tp, sl]
  orders,        \* the resolved orders built by the first loop
  analysed,      \* how many of orders the second loop has passed
  results,       \* the results list
  pc,            \* "convert", "analyze", "returned" or "raised"
  error,         \* the exception that left the call, or "none"
  returned,      \* "df", "None", or "nothing" while the call runs
  printed,       \* what print() and display() have written
  figure         \* the markers of the figure shown, <<>> when none is shown

vars == <<capital, leverage, orders_input, orders, analysed, results, pc,
          error, returned, printed, figure>>

MaxOrders == 2

Directions == {"long", "short"}
WinRates == {Dec(5, 1), Dec(6, 1)}
Prices == {FromInt(100), FromInt(4420)}
PriceSpecs ==
  {Num(90), Num(95), Num(100), Num(110),
   Str(<<"9", "5">>),
   Str(<<"1", "0", "%">>), Str(<<"-", "5", "%">>), Str(<<"3", "%">>),
   Str(<<"-", "8", ".", "7", "%">>),
   Str(<<"x", "%">>), Str(<<"5", "%", "%">>)}

Row(d, w, p, tp, sl) ==
  [direction |-> d, win_rate |-> w, current_price |-> p,
   take_profit |-> tp, stop_loss |-> sl]

Rows ==
  {Row(d, w, p, tp, sl) : d \in Directions, w \in WinRates, p \in Prices,
                          tp \in PriceSpecs, sl \in PriceSpecs}

\* the rows of the example call, an order with bad geometry, and malformed
\* percentage strings
ExampleRows ==
  {Row("long", Dec(6, 1), FromInt(4420), Str(<<"3", "%">>),
       Str(<<"-", "8", ".", "7", "%">>)),
   Row("short", Dec(5, 1), FromInt(4420), Num(4000), Num(5000)),
   Row("long", Dec(5, 1), FromInt(4420), Num(5000), Str(<<"-", "4", "%">>)),
   Row("long", Dec(5, 1), FromInt(100), Num(110), Num(100)),
   Row("short", Dec(5, 1), FromInt(100), Str(<<"x", "%">>), Num(110)),
   Row("long", Dec(5, 1), FromInt(100), Str(<<"5", "%", "%">>), Num(90))}

\* (capital, leverage) pairs
Accounts ==
  {<<FromInt(100), FromInt(20)>>, <<FromInt(100), Zero>>,
   <<Zero, FromInt(20)>>, <<FromInt(300), One>>, <<FromInt(100), FromInt(-1)>>}

RowLists == UNION {[1..n -> ExampleRows] : n \in 0..MaxOrders}

Init ==
  /\ \E a \in Accounts : capital = a[1] /\ leverage = a[2]
  /\ \/ \E row \in Rows : orders_input = <<row>>
     \/ orders_input \in RowLists
  /\ orders = <<>>
  /\ analysed = 0
  /\ results = <<>>
  /\ pc = "convert"
  /\ error = "none"
  /\ returned = "nothing"
  /\ printed = <<>>
  /\ figure = <<>>

\* lines 172-179: one pass of the first loop
Convert ==
  /\ pc = "convert"
  /\ Len(orders) < Len(orders_input)
  /\ LET o  == orders_input[Len(orders) + 1]
         tp == calc_price_from_input(o.current_price, o.take_profit)
         sl == calc_price_from_input(o.current_price, o.stop_loss)
     IN  IF tp.ok /\ sl.ok
         THEN /\ orders' = Append(orders,
                             [direction |-> o.direction, win_rate |-> o.win_rate,
                              current_price |-> o.current_price,
                              take_profit |-> tp.v, stop_loss |-> sl.v])
              /\ UNCHANGED <<pc, error>>
         ELSE /\ pc' = "raised"
              /\ error' = "ValueError"
              /\ UNCHANGED orders
  /\ UNCHANGED <<capital, leverage, orders_input, analysed, results, returned,
                 printed, figure>>

\* lines 181-182: the first loop is over, results = []
StartAnalysis ==
  /\ pc = "convert"
  /\ Len(orders) = Len(orders_input)
  /\ pc' = "analyze"
  /\ results' = <<>>
  /\ UNCHANGED <<capital, leverage, orders_input, orders, analysed, error,
                 returned, printed, figure>>

\* lines 183-186: one pass of the second loop
Analyze ==
  /\ pc = "analyze"
  /\ analysed < Len(orders)
  /\ LET res == analyze_order(orders[analysed + 1], capital, leverage)
     IN  IF res.kind = "raise"
         THEN /\ pc' = "raised"
              /\ error' = "ZeroDivisionError"
              /\ UNCHANGED <<analysed, results>>
         ELSE /\ analysed' = analysed + 1
              /\ results' = IF res.kind = "result"
                            THEN Append(results, res.r) ELSE results
              /\ UNCHANGED <<pc, error>>
  /\ UNCHANGED <<capital, leverage, orders_input, orders, returned, printed,
                 figure>>

\* mutant: the table is built and returned when results is empty too
Finish_alwaysTable ==
  /\ pc = "analyze"
  /\ analysed = Len(orders)
  /\ pc' = "returned"
  /\ printed' = <<"results", results>>
  /\ figure' = plot_heatmap(results)
  /\ returned' = "df"
  /\ UNCHANGED <<capital, leverage, orders_input, orders, analysed, results,
                 error>>

\* lines 188-198: display, plot and return
Finish ==
  /\ pc = "analyze"
  /\ analysed = Len(orders)
  /\ pc' = "returned"
  /\ IF results # <<>>
     THEN /\ printed' = <<"results", results>>
          /\ figure' = plot_heatmap(results)
          /\ returned' = "df"
     ELSE /\ printed' = <<"no valid orders">>
          /\ figure' = <<>>
          /\ returned' = "None"
  /\ UNCHANGED <<capital, leverage, orders_input, orders, analysed, results,
                 error>>

Next == Convert \/ StartAnalysis \/ Analyze \/ Finish

Spec == Init /\ [][Next]_vars

----------------------------------------------------------------------------
(* Properties.  Comparisons and tolerances are evaluated in exact          *)
(* arithmetic on the values the floats denote.                             *)

Pow2(n) == [s |-> 0, m |-> <<1>>, e |-> n]

XLe(a, b) == Sign(XSub(a, b)) <= 0

\* |a - b| <= 2^-k * c
Within(a, b, k, c) == XLe(XAbs(XSub(a, b)), XMul(Pow2(-k), c))

\* x, rounded to k decimals, is n / 10^k
Approx(x, n, k) ==
  XLe(XAbs(XSub(XMul(x, FromInt(2 * 10 ^ k)), FromInt(2 * n))), One)

\* the decimal a string writes: n / 10^k
Decimal(c) ==
  LET neg  == c # <<>> /\ c[1] = "-"
      body == IF c # <<>> /\ c[1] \in {"-", "+"} THEN Tail(c) ELSE c
      dots == {i \in 1..Len(body) : body[i] = "."}
      k    == IF dots = {} THEN 0 ELSE Len(body) - (CHOOSE i \in dots : TRUE)
      ds   == SelectSeq(body, IsDigit)
  IN  [n |-> IF neg THEN -DigitsVal(ds) ELSE DigitsVal(ds), k |-> k]

\* a string "p%" whose prefix p is numeric
IsPercent(value) ==
  /\ value.t = "str"
  /\ EndsWith(value.c, "%")
  /\ ParseFloat(SubSeq(value.c, 1, Len(value.c) - 1)).ok

\* the decimal p of a string "p%"
PercentOf(value) == Decimal(SubSeq(value.c, 1, Len(value.c) - 1))

\* a string ending in "%" whose prefix is not numeric
IsMalformedPercent(value) ==
  /\ value.t = "str"
  /\ EndsWith(value.c, "%")
  /\ ~ParseFloat(SubSeq(value.c, 1, Len(value.c) - 1)).ok

ViolatesOrdering(o) ==
  IF o.direction = "long"
  THEN ~(FLt(o.stop_loss, o.current_price) /\ FLt(o.current_price, o.take_profit))
  ELSE ~(FLt(o.take_profit, o.current_price) /\ FLt(o.current_price, o.stop_loss))

Positive(x) == Sign(x) > 0
Negative(x) == Sign(x) < 0

\* C1: every result has stop_loss < entry_price < take_profit when it is
\* long and take_profit < entry_price < stop_loss when it is short, both strict.
C1_DirectionalOrdering ==
  \A i \in 1..Len(results) :
    LET r == results[i] IN
    IF r.direction = "long"
    THEN Positive(XSub(r.entry_price, r.stop_loss))
         /\ Positive(XSub(r.take_profit, r.entry_price))
    ELSE Positive(XSub(r.entry_price, r.take_profit))
         /\ Positive(XSub(r.stop_loss, r.entry_price))

C1_Witness ==
  /\ returned = "df"
  /\ \E i, j \in 1..Len(results) :
       results[i].direction = "long" /\ results[j].direction = "short"

\* C2: an order that violates the directional ordering is dropped and never
\* makes the evaluation raise, whatever capital and leverage are.
C2_InvalidOrderNeverRaises ==
  ~(/\ pc = "raised"
    /\ error = "ZeroDivisionError"
    /\ ViolatesOrdering(orders[analysed + 1]))

PriceFields == {"take_profit", "stop_loss"}

TenPercent == Str(<<"1", "0", "%">>)
MinusFivePercent == Str(<<"-", "5", "%">>)

\* C3 as amended: a string "p%" with numeric p resolves to the float result
\* of entry_price * (1 + p/100), within 2^-51 * entry_price * (1 + |p|/100)
\* of the exact value; a number, or a numeric string without "%", resolves to
\* itself whatever the entry price; resolve(100, "10%") is 110 + 2^-46 (the
\* float after 110), resolve(100, "-5%") = 95 and resolve(100, 95) = 95.
C3_Resolve ==
  \A j \in 1..Len(orders) : \A f \in PriceFields :
    LET value == orders_input[j][f]
        got   == orders[j][f]
        cp    == orders_input[j].current_price
        d     == PercentOf(value)
        D     == 100 * 10 ^ d.k
    IN  /\ IsPercent(value) =>
             Within(XMul(got, FromInt(D)), XMul(cp, FromInt(D + d.n)), 51,
                    XMul(XAbs(cp), FromInt(D + (IF d.n < 0 THEN -d.n ELSE d.n))))
        /\ value.t = "num" =>
             /\ got = value.v
             /\ \A p \in Prices : calc_price_from_input(p, value).v = value.v
        /\ (value.t = "str" /\ ~EndsWith(value.c, "%")) =>
             Within(XMul(got, FromInt(10 ^ Decimal(value.c).k)),
                    FromInt(Decimal(value.c).n), 53,
                    XAbs(FromInt(Decimal(value.c).n)))
        /\ (cp = Hundred /\ value = TenPercent) =>
             got = XAdd(FromInt(110), Pow2(-46))
        /\ (cp = Hundred /\ value = MinusFivePercent) => got = FromInt(95)
        /\ (cp = Hundred /\ value = Num(95)) => got = FromInt(95)

C3_Witness ==
  \E j \in 1..Len(orders) :
    /\ orders_input[j].current_price = Hundred
    /\ orders_input[j].take_profit = TenPercent
    /\ orders_input[j].stop_loss = Num(95)

\* C3 as stated: resolve(100, "10%") = 110.
C3_TenPercentIs110 ==
  \A j \in 1..Len(orders) : \A f \in PriceFields :
    (orders_input[j].current_price = Hundred /\ orders_input[j][f] = TenPercent)
      => orders[j][f] = FromInt(110)

\* C4: with position_size = capital * leverage / entry_price, a long result
\* has potential_profit = (take_profit - entry_price) * position_size and
\* potential_loss = (entry_price - stop_loss) * position_size, a short result
\* mirrors them, and in both profit_loss_ratio = |profit / loss| and
\* expected_value = win_rate * profit - (1 - win_rate) * loss.
C4_Formulas ==
  \A i \in 1..Len(results) :
    LET r  == results[i]
        ps == FDiv(FMul(r.capital, r.leverage), r.entry_price)
    IN  /\ r.capital = capital /\ r.leverage = leverage
        /\ IF r.direction = "long"
           THEN /\ r.potential_profit =
                     FMul(FSub(r.take_profit, r.entry_price), ps)
                /\ r.potential_loss =
                     FMul(FSub(r.entry_price, r.stop_loss), ps)
           ELSE /\ r.potential_profit =
                     FMul(FSub(r.entry_price, r.take_profit), ps)
                /\ r.potential_loss =
                     FMul(FSub(r.stop_loss, r.entry_price), ps)
        /\ r.profit_loss_ratio =
             XAbs(FDiv(r.potential_profit, r.potential_loss))
        /\ r.expected_value =
             FSub(FMul(r.win_rate, r.potential_profit),
                  FMul(FSub(One, r.win_rate), r.potential_loss))

C4_Witness ==
  /\ pc = "returned"
  /\ \E i \in 1..Len(results) :
       results[i].direction = "short" /\ Negative(results[i].leverage)
  /\ \E i \in 1..Len(results) : results[i].direction = "long"

LongExample ==
  Row("long", Dec(6, 1), FromInt(4420), Str(<<"3", "%">>),
      Str(<<"-", "8", ".", "7", "%">>))

IsLongExampleCall ==
  /\ capital = FromInt(100)
  /\ leverage = FromInt(20)
  /\ orders_input # <<>>
  /\ orders_input[1] = LongExample

\* C5 as amended: the long order 4420, "3%", "-8.7%", win rate 0.6, capital
\* 100, leverage 20 resolves to take_profit 4552.6 and stop_loss 4035.46 and
\* gives position_value = 2000, potential_profit = 60.00, potential_loss =
\* 174.0, profit_loss_ratio = 0.345 and expected_value = -33.6, each to the
\* decimals written.
C5_Example ==
  IsLongExampleCall =>
    /\ orders # <<>> =>
         /\ Approx(orders[1].take_profit, 45526, 1)
         /\ Approx(orders[1].stop_loss, 403546, 2)
    /\ analysed >= 1 =>
         /\ results # <<>>
         /\ results[1].position_value = FromInt(2000)
         /\ Approx(results[1].potential_profit, 6000, 2)
         /\ Approx(results[1].potential_loss, 1740, 1)
         /\ Approx(results[1].profit_loss_ratio, 345, 3)
         /\ Approx(results[1].expected_value, -336, 1)

C5_Witness == IsLongExampleCall /\ pc = "returned" /\ returned = "df"

\* C5 as stated: stop_loss resolves to 4034.454, potential_profit is 60.03,
\* potential_loss 174.5, profit_loss_ratio 0.344 and expected_value -33.8.
C5_SpecNumbers ==
  (IsLongExampleCall /\ analysed >= 1) =>
    /\ results # <<>>
    /\ Approx(orders[1].take_profit, 45526, 1)
    /\ Approx(orders[1].stop_loss, 4034454, 3)
    /\ results[1].position_value = FromInt(2000)
    /\ Approx(results[1].potential_profit, 6003, 2)
    /\ Approx(results[1].potential_loss, 1745, 1)
    /\ Approx(results[1].profit_loss_ratio, 344, 3)
    /\ Approx(results[1].expected_value, -338, 1)

\* an order analyze_order accepts: the ordering holds and the position is
\* not empty (capital * leverage # 0, so that potential_loss # 0)
ValidOrder(o) == ~ViolatesOrdering(o) /\ capital # Zero /\ leverage # Zero

OrderKey(o) ==
  <<o.direction, o.win_rate, o.current_price, o.take_profit, o.stop_loss>>

ResultKey(r) ==
  <<r.direction, r.win_rate, r.entry_price, r.take_profit, r.stop_loss>>

\* C6: the results are the valid orders among those analysed, one result
\* each, in input order; a call that returns with no valid order returns None
\* with the "no valid orders" message and shows no figure, and a call that
\* returns a table returns a non-empty one with one marker per result.
C6_ResultsAreValidOrders ==
  /\ pc \in {"analyze", "returned"} =>
       LET valid == SelectSeq(SubSeq(orders, 1, analysed), ValidOrder)
       IN  /\ Len(results) = Len(valid)
           /\ \A i \in 1..Len(valid) : ResultKey(results[i]) = OrderKey(valid[i])
  /\ pc = "returned" =>
       /\ analysed = Len(orders_input)
       /\ IF SelectSeq(orders, ValidOrder) = <<>>
          THEN /\ returned = "None"
               /\ printed = <<"no valid orders">>
               /\ figure = <<>>
          ELSE /\ returned = "df"
               /\ results # <<>>
               /\ printed = <<"results", results>>
               /\ Len(figure) = Len(results)

C6_Witness ==
  /\ pc = "returned"
  /\ Len(orders) >= 2
  /\ ViolatesOrdering(orders[1])
  /\ Len(results) = Len(orders) - 1

\* C7: a percentage string with a non-numeric prefix anywhere in the input
\* makes the call fail with the parse error before any order is evaluated:
\* no result, no table, no figure.
C7_MalformedPercentFails ==
  (\E j \in 1..Len(orders_input) : \E f \in PriceFields :
      IsMalformedPercent(orders_input[j][f]))
    => /\ pc \in {"convert", "raised"}
       /\ pc = "raised" => error = "ValueError"
       /\ results = <<>>
       /\ returned = "nothing"
       /\ figure = <<>>

\* the loss line 30 or 37 computes for a resolved order
LossOf(o) ==
  LET ps == FDiv(FMul(capital, leverage), o.current_price)
  IN  IF o.direction = "long"
      THEN FMul(FSub(o.current_price, o.stop_loss), ps)
      ELSE FMul(FSub(o.stop_loss, o.current_price), ps)

\* C8: an order whose computed potential_loss is 0 gives None, in particular
\* every order when capital = 0; no result has potential_loss = 0; and for
\* capital > 0, leverage > 0 (entry_price > 0) every result has
\* potential_profit > 0, potential_loss > 0 and profit_loss_ratio > 0.
C8_ZeroLossDropped ==
  /\ \A j \in 1..analysed :
       LossOf(orders[j]) = Zero =>
         analyze_order(orders[j], capital, leverage).kind = "none"
  /\ capital = Zero => results = <<>>
  /\ (capital = Zero /\ leverage # Zero) => error # "ZeroDivisionError"
  /\ \A i \in 1..Len(results) :
       /\ results[i].potential_loss # Zero
       /\ (Positive(capital) /\ Positive(leverage)
             /\ Positive(results[i].entry_price)) =>
            /\ Positive(results[i].potential_profit)
            /\ Positive(results[i].potential_loss)
            /\ Positive(results[i].profit_loss_ratio)

C8_Witness ==
  /\ capital = Zero
  /\ pc = "returned"
  /\ returned = "None"
  /\ \E j \in 1..Len(orders) : ~ViolatesOrdering(orders[j])

OrderOf(r) ==
  [direction |-> r.direction, win_rate |-> r.win_rate,
   current_price |-> r.entry_price, take_profit |-> r.take_profit,
   stop_loss |-> r.stop_loss]

\* win_rate * |profit| + (1 - win_rate) * |loss|: the scale of the rounding
EvScale(r) ==
  XAdd(XMul(r.win_rate, XAbs(r.potential_profit)),
       XMul(XSub(One, r.win_rate), XAbs(r.potential_loss)))

\* C9 as amended: expected_value equals potential_loss * Z(win_rate,
\* profit_loss_ratio), Z the surface of the chart at the marker, up to
\* rounding: within 2^-50 * (win_rate * |profit| + (1 - win_rate) * |loss|).
\* For potential_loss > 0 it has the sign of Z there whenever
\* |potential_loss * Z| exceeds that bound.  profit_loss_ratio, the marker's
\* y, depends on capital and leverage by rounding only: relative 2^-50.
C9_ExpectedValueOnSurface ==
  /\ \A i \in 1..Len(results) :
       LET r  == results[i]
           z  == Z(r.win_rate, r.profit_loss_ratio)
           lz == XMul(r.potential_loss, z)
       IN  /\ Within(r.expected_value, lz, 50, EvScale(r))
           /\ (Positive(r.potential_loss)
                 /\ ~XLe(XAbs(lz), XMul(Pow2(-50), EvScale(r)))) =>
                Sign(r.expected_value) = Sign(z)
           /\ \A a \in Accounts :
                LET other == analyze_order(OrderOf(r), a[1], a[2])
                IN  other.kind = "result" =>
                      Within(other.r.profit_loss_ratio, r.profit_loss_ratio,
                             50, r.profit_loss_ratio)
  /\ pc = "returned" =>
       \A i \in 1..Len(figure) :
         /\ figure[i].y = results[i].profit_loss_ratio
         /\ figure[i].x = FMul(results[i].win_rate, Hundred)

C9_Witness ==
  /\ returned = "df"
  /\ \E i, k \in 1..Len(results) :
       /\ Positive(results[i].potential_loss)
       /\ Positive(results[i].expected_value)
       /\ Positive(results[k].potential_loss)
       /\ Negative(results[k].expected_value)

\* C9 as stated: expected_value = potential_loss * (win_rate *
\* profit_loss_ratio - (1 - win_rate)), evaluated exactly or in floats, and
\* profit_loss_ratio is the same for every capital and leverage.
C9_ExactIdentity ==
  \A i \in 1..Len(results) :
    LET r == results[i] IN
    /\ \/ r.expected_value =
            XMul(r.potential_loss,
                 XSub(XMul(r.win_rate, r.profit_loss_ratio),
                      XSub(One, r.win_rate)))
       \/ r.expected_value =
            FMul(r.potential_loss, Z(r.win_rate, r.profit_loss_ratio))
    /\ \A a \in Accounts :
         LET other == analyze_order(OrderOf(r), a[1], a[2])
         IN  other.kind = "result" =>
               other.r.profit_loss_ratio = r.profit_loss_ratio

Range(q) == {q[i] : i \in 1..Len(q)}

AbsInt(n) == IF n < 0 THEN -n ELSE n

\* |pct - sgn * p| <= 2^-50 * (100 + |p|), p the decimal of the string "p%"
PctNear(pct, value, sgn) ==
  LET d == PercentOf(value)
      D == 10 ^ d.k
  IN  Within(XMul(pct, FromInt(D)), FromInt(sgn * d.n), 50,
             FromInt(100 * D + AbsInt(d.n)))

\* C10 as amended: for an accepted order whose take-profit or stop-loss is
\* the string "p%", the percentage field reproduces p up to rounding, within
\* 2^-50 * (100 + |p|): take_profit_pct is p for a long and -p for a short
\* order, stop_loss_pct is p for both.  take_profit_pct > 0 in every result;
\* stop_loss_pct < 0 in long results and > 0 in short ones.
C10_PercentRoundTrip ==
  \A j \in 1..analysed :
    LET res == analyze_order(orders[j], capital, leverage)
        r   == res.r
        row == orders_input[j]
        dir == IF row.direction = "long" THEN 1 ELSE -1
    IN  res.kind = "result" =>
          /\ r \in Range(results)
          /\ IsPercent(row.take_profit) =>
               PctNear(r.take_profit_pct, row.take_profit, dir)
          /\ IsPercent(row.stop_loss) =>
               PctNear(r.stop_loss_pct, row.stop_loss, 1)
          /\ Positive(r.take_profit_pct)
          /\ IF row.direction = "long"
             THEN Negative(r.stop_loss_pct) ELSE Positive(r.stop_loss_pct)

C10_Witness ==
  /\ pc = "returned"
  /\ returned = "df"
  /\ orders_input[1].direction = "short"
  /\ IsPercent(orders_input[1].take_profit)
  /\ IsPercent(orders_input[1].stop_loss)

\* C10 as stated: the percentage field is exactly the float p (-p for the
\* take-profit of a short order).
C10_ExactRoundTrip ==
  \A j \in 1..analysed :
    LET res == analyze_order(orders[j], capital, leverage)
        r   == res.r
        row == orders_input[j]
        p(value) == ParseFloat(SubSeq(value.c, 1, Len(value.c) - 1)).v
    IN  res.kind = "result" =>
          /\ IsPercent(row.take_profit) =>
               r.take_profit_pct = IF row.direction = "long"
                                   THEN p(row.take_profit)
                                   ELSE XNeg(p(row.take_profit))
          /\ IsPercent(row.stop_loss) => r.stop_loss_pct = p(row.stop_loss)
====
